---- MODULE Spec2Model ----
(***************************************************************************)
(* Model of src/pdf_to_sheet.py (batch form/table pipeline) and            *)
(* src/process_invoice.py (single-document query/summary pipeline).        *)
(*                                                                         *)
(* Text is a sequence of one-character strings, so that concatenation,     *)
(* str.strip and strftime are computed and not assumed.                    *)
(***************************************************************************)
EXTENDS Integers, Sequences, FiniteSets, TLC

VARIABLES
  blocks,       \* the block collection in hand (the response being processed)
  ret,          \* SpecRecon: the reconstruction call made and what it gave
  prog,         \* the script that runs: "pdf_to_sheet" or "process_invoice"
  env,          \* the process environment: variable -> value, Unset when absent
  argv,         \* len(sys.argv)
  config,       \* the settings read from env (module globals / load_config())
  pc,           \* position of the run; "done" and "exit" are final
  err,          \* the error that ended the run
  calls,        \* the external calls made so far
  keys,         \* pdf_to_sheet: the keys list_pdfs returned
  cur,          \* pdf_to_sheet: index in keys of the document in hand
  analysed,     \* pdf_to_sheet: the keys handed to analyze_document, in order
  responses,    \* pdf_to_sheet: the block collections analyze_document returned
  header_rows,  \* pdf_to_sheet: the header rows append_form_data read
  kv_pairs,     \* pdf_to_sheet: process_pdf's kv_pairs
  tables,       \* pdf_to_sheet: process_pdf's tables
  ti,           \* pdf_to_sheet: index of the table in hand
  ri,           \* pdf_to_sheet: index of the row of that table in hand
  sheet,        \* the spreadsheet: the rows appended, [tab, row], in order
  date_outcome, \* process_invoice: what date_parser.parse gave
  parsed,       \* process_invoice: main's parsed
  summary       \* process_invoice: main's summary

startVars == <<prog, env, argv>>

batchVars == <<keys, cur, analysed, responses, header_rows, kv_pairs, tables, ti, ri>>

invoiceVars == <<date_outcome, parsed, summary>>

vars == <<blocks, ret, startVars, config, pc, err, calls, batchVars, sheet, invoiceVars>>

(* ---------- bounds of the model ---------- *)

\* largest RowIndex / ColumnIndex a CELL of the inputs carries
MaxRow == 2
MaxCol == 3

\* most objects a listing of the bucket holds
MaxDocs == 2

(* ---------- python values ---------- *)

Range(s) == {s[i] : i \in DOMAIN s}

NoError == [type |-> "", names |-> <<>>]

\* date_parser.parse: the date it found, or ok = FALSE when it raised
NoDate == [ok |-> FALSE, year |-> 0, month |-> 0, day |-> 0]

\* a call that returned v / a call that raised KeyError(k)
Ok(v) == [raised |-> "", value |-> v]
KeyError(k) == [raised |-> "KeyError", value |-> k]

\* d[k] = v on a dict (a function; {} is <<>>)
DictSet(d, k, v) == [x \in DOMAIN d \cup {k} |-> IF x = k THEN v ELSE d[x]]

\* d.get(k, default)
DictGet(d, k, default) == IF k \in DOMAIN d THEN d[k] ELSE default

Whitespace == {" ", "\n", "\t"}

RECURSIVE LStrip(_)
LStrip(s) == IF s # <<>> /\ Head(s) \in Whitespace THEN LStrip(Tail(s)) ELSE s

RECURSIVE RStrip(_)
RStrip(s) ==
  IF s # <<>> /\ s[Len(s)] \in Whitespace THEN RStrip(SubSeq(s, 1, Len(s) - 1)) ELSE s

\* str.strip()
strip(s) == RStrip(LStrip(s))

RECURSIVE sorted_descending(_)
\* variant of sorted: the keys in descending order (reverse=True)
sorted_descending(S) ==
  IF S = {} THEN <<>>
  ELSE LET m == CHOOSE x \in S : \A y \in S : y <= x
       IN <<m>> \o sorted_descending(S \ {m})

RECURSIVE sorted(_)
\* sorted(keys) of a set of integers
sorted(S) ==
  IF S = {} THEN <<>>
  ELSE LET m == CHOOSE x \in S : \A y \in S : x <= y
       IN <<m>> \o sorted(S \ {m})

(* ---------- blocks of an analysis response ---------- *)

\* a block; a field the service leaves out holds the value .get() defaults to
Block(id, type) ==
  [Id |-> id, BlockType |-> type, EntityTypes |-> <<>>, Relationships |-> <<>>,
   Text |-> <<>>, SelectionStatus |-> "", RowIndex |-> 0, ColumnIndex |-> 0,
   Alias |-> ""]

\* python None where a block is expected
None == Block("", "None")

Rel(type, ids) == [Type |-> type, Ids |-> ids]

\* {b["Id"]: b for b in blocks}: a later block of the same Id replaces an earlier
BlockMapOf(bs) ==
  [i \in {bs[n].Id : n \in DOMAIN bs} |->
     bs[CHOOSE n \in DOMAIN bs :
          bs[n].Id = i /\ \A m \in DOMAIN bs : bs[m].Id = i => m <= n]]

RECURSIVE RelIds(_, _)
\* the Ids of the relationships of one Type, in the order the loops visit them
RelIds(rels, type) ==
  IF rels = <<>> THEN <<>>
  ELSE (IF Head(rels).Type = type THEN Head(rels).Ids ELSE <<>>)
       \o RelIds(Tail(rels), type)

(* ---------- pdf_to_sheet.extract_text ---------- *)

RECURSIVE AppendChildren(_, _, _)
AppendChildren(text, ids, block_map) ==
  IF ids = <<>> THEN Ok(text)
  ELSE LET cid == Head(ids)
       IN IF cid \notin DOMAIN block_map THEN KeyError(cid)
          ELSE LET word == block_map[cid]
                   more == IF word.BlockType = "WORD" THEN word.Text \o <<" ">>
                           ELSE IF word.BlockType = "SELECTION_ELEMENT"
                                   /\ word.SelectionStatus = "SELECTED"
                                THEN <<"X", " ">>
                                ELSE <<>>
               IN AppendChildren(text \o more, Tail(ids), block_map)

extract_text(block, block_map) ==
  IF block = None THEN Ok(<<>>)
  ELSE LET r == AppendChildren(<<>>, RelIds(block.Relationships, "CHILD"), block_map)
       IN IF r.raised # "" THEN r ELSE Ok(strip(r.value))

(* ---------- pdf_to_sheet.build_kv_map ---------- *)

IsKeyBlock(b) == b.BlockType = "KEY_VALUE_SET" /\ "KEY" \in Range(b.EntityTypes)

IsValueBlock(b) == b.BlockType = "KEY_VALUE_SET" /\ "KEY" \notin Range(b.EntityTypes)

\* value_map: the KEY_VALUE_SET blocks without the KEY role, by Id
ValueMapOf(bs) ==
  LET bm == BlockMapOf(bs)
  IN [i \in {j \in DOMAIN bm : \E n \in DOMAIN bs : bs[n].Id = j /\ IsValueBlock(bs[n])}
        |-> LET n == CHOOSE n \in DOMAIN bs :
                       /\ bs[n].Id = i /\ IsValueBlock(bs[n])
                       /\ \A m \in DOMAIN bs :
                            bs[m].Id = i /\ IsValueBlock(bs[m]) => m <= n
            IN bs[n]]

\* variant of FirstTarget: the last target id instead of the first
LastTarget(ids, value_map) == DictGet(value_map, ids[Len(ids)], None)

\* value_map.get(rel["Ids"][0])
FirstTarget(ids, value_map) == DictGet(value_map, ids[1], None)

RECURSIVE ResolveValue(_, _, _)
\* the loop over a key block's relationships: each VALUE relationship with
\* target ids assigns value_block again
ResolveValue(rels, value_map, value_block) ==
  IF rels = <<>> THEN value_block
  ELSE LET rel == Head(rels)
           nxt == IF rel.Type = "VALUE" /\ rel.Ids # <<>>
                  THEN FirstTarget(rel.Ids, value_map)
                  ELSE value_block
       IN ResolveValue(Tail(rels), value_map, nxt)

RECURSIVE KvLoop(_, _, _, _)
KvLoop(key_blocks, value_map, block_map, pairs) ==
  IF key_blocks = <<>> THEN Ok(pairs)
  ELSE LET key_block == Head(key_blocks)
           value_block == ResolveValue(key_block.Relationships, value_map, None)
           key_text == extract_text(key_block, block_map)
           val_text == IF value_block # None
                       THEN extract_text(value_block, block_map)
                       ELSE Ok(<<>>)
       IN IF key_text.raised # "" THEN key_text
          ELSE IF val_text.raised # "" THEN val_text
          ELSE KvLoop(Tail(key_blocks), value_map, block_map,
                      DictSet(pairs, key_text.value, val_text.value))

\* block Ids are unique in a response, so key_map iterates the key blocks in
\* the order of the collection
build_kv_map(bs) ==
  KvLoop(SelectSeq(bs, IsKeyBlock), ValueMapOf(bs), BlockMapOf(bs), <<>>)

(* ---------- pdf_to_sheet.extract_tables ---------- *)

\* rows.setdefault(row_idx, {})[col_idx] = text
RowsSet(rows, row_idx, col_idx, text) ==
  DictSet(rows, row_idx, DictSet(DictGet(rows, row_idx, <<>>), col_idx, text))

RECURSIVE CellLoop(_, _, _)
CellLoop(ids, block_map, rows) ==
  IF ids = <<>> THEN Ok(rows)
  ELSE LET cell_id == Head(ids)
       IN IF cell_id \notin DOMAIN block_map THEN KeyError(cell_id)
          ELSE LET cell == block_map[cell_id]
               IN IF cell.BlockType = "CELL"
                  THEN LET t == extract_text(cell, block_map)
                       IN IF t.raised # "" THEN t
                          ELSE CellLoop(Tail(ids), block_map,
                                        RowsSet(rows, cell.RowIndex, cell.ColumnIndex, t.value))
                  ELSE CellLoop(Tail(ids), block_map, rows)

\* row_values = [row.get(c, "") for c in sorted(row.keys())]
RowValues(row) ==
  LET cols == sorted(DOMAIN row)
  IN [j \in 1..Len(cols) |-> DictGet(row, cols[j], <<>>)]

TableData(rows) ==
  LET row_idxs == sorted(DOMAIN rows)
  IN [i \in 1..Len(row_idxs) |-> RowValues(rows[row_idxs[i]])]

RECURSIVE TableLoop(_, _, _)
TableLoop(bs, block_map, done) ==
  IF bs = <<>> THEN Ok(done)
  ELSE LET block == Head(bs)
       IN IF block.BlockType = "TABLE"
          THEN LET rows == CellLoop(RelIds(block.Relationships, "CHILD"), block_map, <<>>)
               IN IF rows.raised # "" THEN rows
                  ELSE TableLoop(Tail(bs), block_map, Append(done, TableData(rows.value)))
          ELSE TableLoop(Tail(bs), block_map, done)

extract_tables(bs) == TableLoop(bs, BlockMapOf(bs), <<>>)

(* ---------- block collections the reconstruction is applied to ---------- *)

Word(id, text) == [Block(id, "WORD") EXCEPT !.Text = text]

Selection(id, status) == [Block(id, "SELECTION_ELEMENT") EXCEPT !.SelectionStatus = status]

Line(id, text) == [Block(id, "LINE") EXCEPT !.Text = text]

Children(ids) == IF ids = <<>> THEN <<>> ELSE <<Rel("CHILD", ids)>>

KeyBlock(id, value_rels, child_ids) ==
  [Block(id, "KEY_VALUE_SET") EXCEPT !.EntityTypes = <<"KEY">>,
                                     !.Relationships = value_rels \o Children(child_ids)]

ValueBlock(id, child_ids) ==
  [Block(id, "KEY_VALUE_SET") EXCEPT !.EntityTypes = <<"VALUE">>,
                                     !.Relationships = Children(child_ids)]

Cell(id, r, c, child_ids) ==
  [Block(id, "CELL") EXCEPT !.RowIndex = r, !.ColumnIndex = c,
                            !.Relationships = Children(child_ids)]

Table(id, child_ids) == [Block(id, "TABLE") EXCEPT !.Relationships = Children(child_ids)]

Leaves ==
  << Word("w1", <<"A">>), Word("w2", <<"B">>), Word("w3", <<"C">>),
     Selection("s1", "SELECTED"), Selection("s2", "NOT_SELECTED"),
     Line("l1", <<"A", " ", "B">>) >>

\* "zz" is the Id of no block
KeyChildChoices ==
  { <<>>, <<"w1">>, <<"w1", "w2">>, <<"s1">>, <<"s2", "w2", "l1">>, <<"w1", "zz">> }

ValueRelChoices ==
  { <<>>, <<Rel("VALUE", <<>>)>>, <<Rel("VALUE", <<"v1">>)>>, <<Rel("VALUE", <<"v2">>)>>,
    <<Rel("VALUE", <<"zz">>)>>, <<Rel("VALUE", <<"w1">>)>>, <<Rel("VALUE", <<"v1", "v2">>)>> }

ValueChildChoices == { <<"s1", "w3">>, <<"w3", "zz">> }

FormPart(kc1, vr1, kc2, vr2, vc) ==
  << KeyBlock("k1", vr1, kc1), ValueBlock("v1", <<"w2">>),
     KeyBlock("k2", vr2, kc2), ValueBlock("v2", vc) >>

CellIds == {"c1", "c2", "c3"}

CellWord == [c1 |-> "w1", c2 |-> "w2", c3 |-> "w3"]

Positions == (1..MaxRow) \X (1..MaxCol)

Placements == {p \in [CellIds -> Positions] : \A a, b \in CellIds : p[a] = p[b] => a = b}

TableChildChoices ==
  { <<"c1", "c2", "c3">>, <<"c1", "c3", "c2">>, <<"c2", "c1", "c3">>,
    <<"c2", "c3", "c1">>, <<"c3", "c1", "c2">>, <<"c3", "c2", "c1">>,
    <<"c3", "c1">>, <<"w1", "c3", "l1", "c2">>, <<"c1", "zz", "c2">>, <<>> }

SecondTable == << Table("t2", <<"d1">>), Cell("d1", 1, 1, <<"s1">>) >>

TablePart(place, child_ids, second) ==
  (IF second THEN SecondTable ELSE <<>>)
  \o << Table("t1", child_ids),
        Cell("c1", place["c1"][1], place["c1"][2], <<CellWord["c1"]>>),
        Cell("c2", place["c2"][1], place["c2"][2], <<CellWord["c2"]>>),
        Cell("c3", place["c3"][1], place["c3"][2], <<CellWord["c3"]>>) >>

DefaultPlacement == [c1 |-> <<1, 1>>, c2 |-> <<1, 2>>, c3 |-> <<2, 1>>]

FormInputs ==
  { Leaves \o FormPart(kc1, vr1, kc2, vr2, vc)
           \o TablePart(DefaultPlacement, <<"c1", "c2", "c3">>, FALSE) :
      kc1 \in KeyChildChoices, vr1 \in ValueRelChoices,
      kc2 \in KeyChildChoices, vr2 \in ValueRelChoices, vc \in ValueChildChoices }

TableInputs ==
  { Leaves \o FormPart(<<"w1">>, <<Rel("VALUE", <<"v1">>)>>, <<"w2">>, <<>>, <<"s1", "w3">>)
           \o TablePart(place, ch, second) :
      place \in Placements, ch \in TableChildChoices, second \in BOOLEAN }

ReconInputs == FormInputs \cup TableInputs

(* ---------- the reconstruction functions applied to one collection ---------- *)

NoCall == [fn |-> "", arg |-> 0, res |-> Ok(<<>>)]

\* the variables of a run before it starts
NotStarted ==
  /\ config = <<>> /\ err = NoError /\ calls = {}
  /\ keys = <<>> /\ cur = 0 /\ analysed = <<>> /\ responses = <<>>
  /\ header_rows = <<>> /\ kv_pairs = <<>> /\ tables = <<>> /\ ti = 0 /\ ri = 0
  /\ sheet = <<>>
  /\ date_outcome = NoDate /\ parsed = <<>> /\ summary = <<>>

InitRecon ==
  /\ blocks \in ReconInputs
  /\ ret = NoCall
  /\ prog = "" /\ env = <<>> /\ argv = 0 /\ pc = ""
  /\ NotStarted

runVars == <<startVars, config, pc, err, calls, batchVars, sheet, invoiceVars>>

CallBuildKvMap ==
  /\ ret.fn = ""
  /\ ret' = [fn |-> "build_kv_map", arg |-> 0, res |-> build_kv_map(blocks)]
  /\ UNCHANGED <<blocks, runVars>>

CallExtractTables ==
  /\ ret.fn = ""
  /\ ret' = [fn |-> "extract_tables", arg |-> 0, res |-> extract_tables(blocks)]
  /\ UNCHANGED <<blocks, runVars>>

CallExtractText ==
  /\ ret.fn = ""
  /\ \E n \in DOMAIN blocks :
       ret' = [fn |-> "extract_text", arg |-> n,
               res |-> extract_text(blocks[n], BlockMapOf(blocks))]
  /\ UNCHANGED <<blocks, runVars>>

NextRecon == CallBuildKvMap \/ CallExtractTables \/ CallExtractText

SpecRecon == InitRecon /\ [][NextRecon]_vars

(* ======================================================================= *)
(* The two scripts                                                         *)
(* ======================================================================= *)

\* os.getenv gives None for a variable the environment does not hold
Unset == "<None>"

getenv(e, var, default) == IF e[var] = Unset THEN default ELSE e[var]

\* bool(v) of None, "" or a non-empty string
Truthy(v) == v \notin {Unset, ""}

\* the run ends: an exception leaves main (pdf_to_sheet has no handler;
\* process_invoice logs it and calls sys.exit(1)), or sys.exit is called
Exit(e) == pc' = "exit" /\ err' = e

UpstreamError(service) == [type |-> service, names |-> <<>>]

\* variant of append_row: the row is inserted above the rows of the sheet
insert_row_first(sh, tab, row) == <<[tab |-> tab, row |-> row]>> \o sh

\* worksheet.append_row(row) on the tab
append_row(sh, tab, row) == Append(sh, [tab |-> tab, row |-> row])

(* ---------- pdf_to_sheet ---------- *)

BatchSettings ==
  {"AWS_REGION", "S3_BUCKET", "S3_PREFIX", "GOOGLE_SHEETS_KEYFILE", "SPREADSHEET_ID",
   "FORM_TAB", "TABLE_TAB"}

\* the module-level settings, each with the default os.getenv is given
ModuleConfig(e) ==
  [AWS_REGION |-> getenv(e, "AWS_REGION", "us-east-1"),
   S3_BUCKET |-> getenv(e, "S3_BUCKET", Unset),
   S3_PREFIX |-> getenv(e, "S3_PREFIX", ""),
   GOOGLE_SHEETS_KEYFILE |-> getenv(e, "GOOGLE_SHEETS_KEYFILE", "credentials.json"),
   SPREADSHEET_ID |-> getenv(e, "SPREADSHEET_ID", Unset),
   FORM_TAB |-> getenv(e, "FORM_TAB", "Form Data"),
   TABLE_TAB |-> getenv(e, "TABLE_TAB", "Table Data")]

\* values an environment sets the optional settings to (the two tabs differ)
ExampleValue ==
  [AWS_REGION |-> "eu-west-1", S3_PREFIX |-> "scans/", GOOGLE_SHEETS_KEYFILE |-> "key.json",
   FORM_TAB |-> "Forms", TABLE_TAB |-> "Tables"]

BatchEnvs ==
  { [v \in BatchSettings |->
       IF v = "S3_BUCKET" THEN bucket
       ELSE IF v = "SPREADSHEET_ID" THEN sid
       ELSE IF optional THEN ExampleValue[v] ELSE Unset] :
      bucket \in {Unset, "", "my-bucket"}, sid \in {Unset, "", "sheet-1"},
      optional \in BOOLEAN }

Lower(ch) == CASE ch = "P" -> "p" [] ch = "D" -> "d" [] ch = "F" -> "f" [] OTHER -> ch

lower(s) == [i \in DOMAIN s |-> Lower(s[i])]

endswith(s, suffix) ==
  /\ Len(s) >= Len(suffix)
  /\ SubSeq(s, Len(s) - Len(suffix) + 1, Len(s)) = suffix

IsPdf(key) == endswith(lower(key), <<".", "p", "d", "f">>)

\* the keys of the listing that end in .pdf, in the listing's order
list_pdfs(objects) == SelectSeq(objects, IsPdf)

ObjectKeys ==
  { <<"a", ".", "p", "d", "f">>, <<"b", ".", "P", "D", "F">>, <<"n", ".", "t", "x", "t">> }

\* what the bucket may list: up to MaxDocs objects, no key twice
Listings ==
  {l \in UNION {[1..n -> ObjectKeys] : n \in 0..MaxDocs} :
     \A i, j \in DOMAIN l : l[i] = l[j] => i = j}

\* block collections analyze_document may return for a document
DocChoices ==
  { <<>>,
    Leaves \o FormPart(<<"w1">>, <<Rel("VALUE", <<"v1">>)>>, <<"w2">>,
                       <<Rel("VALUE", <<"v2">>)>>, <<"s1", "w3">>)
           \o TablePart(DefaultPlacement, <<"c3", "c1", "c2">>, TRUE),
    Leaves \o FormPart(<<"w1">>, <<Rel("VALUE", <<"v1">>)>>, <<"w1">>, <<>>, <<"s1", "w3">>)
           \o TablePart(DefaultPlacement, <<"c1", "zz", "c2">>, TRUE),
    Leaves \o FormPart(<<"w1", "zz">>, <<>>, <<"w2">>, <<>>, <<"s1", "w3">>)
           \o TablePart(DefaultPlacement, <<"c1", "c2", "c3">>, FALSE) }

\* header rows the form tab may hold
HeaderChoices == { <<>>, << <<"B">>, <<"Z">>, <<"A">> >> }

InitBatch ==
  /\ prog = "pdf_to_sheet" /\ env \in BatchEnvs /\ argv = 1 /\ pc = "start"
  /\ blocks = <<>> /\ ret = NoCall
  /\ NotStarted

\* import (lines 11-17), then main up to the two boto3 clients (138-142)
BatchStart ==
  /\ prog = "pdf_to_sheet" /\ pc = "start"
  /\ config' = ModuleConfig(env)
  /\ IF ~(Truthy(config'.S3_BUCKET) /\ Truthy(config'.SPREADSHEET_ID))
     THEN /\ Exit([type |-> "ValueError", names |-> <<"S3_BUCKET", "SPREADSHEET_ID">>])
          /\ UNCHANGED calls
     ELSE /\ pc' = "list_pdfs"
          /\ calls' = calls \cup {"boto3.client"}
          /\ UNCHANGED err
  /\ UNCHANGED <<blocks, ret, startVars, batchVars, sheet, invoiceVars>>

\* keys = list_pdfs(s3)
ListPdfs ==
  /\ prog = "pdf_to_sheet" /\ pc = "list_pdfs"
  /\ calls' = calls \cup {"s3.list_objects_v2"}
  /\ \/ \E objects \in Listings :
          /\ keys' = list_pdfs(objects)
          /\ pc' = "open_sheet"
          /\ UNCHANGED err
     \/ /\ Exit(UpstreamError("s3"))
        /\ UNCHANGED keys
  /\ UNCHANGED <<blocks, ret, startVars, config, cur, analysed, responses, header_rows,
                 kv_pairs, tables, ti, ri, sheet, invoiceVars>>

\* gs_client = authorize_gspread(); sh = gs_client.open_by_key(SPREADSHEET_ID)
OpenSheet ==
  /\ prog = "pdf_to_sheet" /\ pc = "open_sheet"
  /\ calls' = calls \cup {"gspread.authorize"}
  /\ \/ /\ pc' = "loop"
        /\ cur' = 1
        /\ UNCHANGED err
     \/ /\ Exit(UpstreamError("gspread"))
        /\ UNCHANGED cur
  /\ UNCHANGED <<blocks, ret, startVars, config, keys, analysed, responses, header_rows,
                 kv_pairs, tables, ti, ri, sheet, invoiceVars>>

\* variant of Propagate: the failure is kept and the loop goes on to the next key
PropagateAndContinue(e) == err' = e /\ pc' = "loop" /\ cur' = cur + 1

\* an exception raised inside process_pdf leaves the for loop and main
Propagate(e) == Exit(e) /\ cur' = cur

\* process_pdf: response = analyze_document(textract_client, key)
AnalyzeDocument ==
  /\ prog = "pdf_to_sheet" /\ pc = "loop" /\ cur <= Len(keys)
  /\ calls' = calls \cup {"textract.analyze_document"}
  /\ analysed' = Append(analysed, keys[cur])
  /\ \/ \E response \in DocChoices :
          /\ blocks' = response
          /\ responses' = Append(responses, response)
          /\ pc' = "build_kv_map"
          /\ UNCHANGED <<err, cur>>
     \/ /\ Propagate(UpstreamError("textract"))
        /\ UNCHANGED <<blocks, responses>>
  /\ UNCHANGED <<ret, startVars, config, keys, header_rows, kv_pairs, tables, ti, ri,
                 sheet, invoiceVars>>

\* process_pdf: kv_pairs = build_kv_map(blocks)
BuildKvMap ==
  /\ prog = "pdf_to_sheet" /\ pc = "build_kv_map"
  /\ LET r == build_kv_map(blocks)
     IN IF r.raised # ""
        THEN /\ Propagate([type |-> r.raised, names |-> <<r.value>>])
             /\ UNCHANGED kv_pairs
        ELSE /\ kv_pairs' = r.value
             /\ pc' = "append_form_data"
             /\ UNCHANGED <<err, cur>>
  /\ UNCHANGED <<blocks, ret, startVars, config, calls, keys, analysed, responses,
                 header_rows, tables, ti, ri, sheet, invoiceVars>>

\* variant of FormRow: a header the mapping does not hold gives no cell
FormRowSkipMissing(headers, data) ==
  LET held == SelectSeq(headers, LAMBDA h : h \in DOMAIN data)
  IN [i \in DOMAIN held |-> data[held[i]]]

\* row = [data.get(h, "") for h in headers]
FormRow(headers, data) == [i \in DOMAIN headers |-> DictGet(data, headers[i], <<>>)]

\* process_pdf: append_form_data(sh, kv_pairs)
AppendFormData ==
  /\ prog = "pdf_to_sheet" /\ pc = "append_form_data"
  /\ calls' = calls \cup {"gspread.worksheet"}
  /\ \/ \E headers \in HeaderChoices :
          /\ header_rows' = Append(header_rows, headers)
          /\ \/ /\ sheet' = append_row(sheet, config.FORM_TAB, FormRow(headers, kv_pairs))
                /\ pc' = "extract_tables"
                /\ UNCHANGED <<err, cur>>
             \/ /\ Propagate(UpstreamError("gspread"))
                /\ UNCHANGED sheet
     \/ /\ Propagate(UpstreamError("gspread"))
        /\ UNCHANGED <<header_rows, sheet>>
  /\ UNCHANGED <<blocks, ret, startVars, config, keys, analysed, responses, kv_pairs,
                 tables, ti, ri, invoiceVars>>

\* process_pdf: tables = extract_tables(blocks)
ExtractTables ==
  /\ prog = "pdf_to_sheet" /\ pc = "extract_tables"
  /\ LET r == extract_tables(blocks)
     IN IF r.raised # ""
        THEN /\ Propagate([type |-> r.raised, names |-> <<r.value>>])
             /\ UNCHANGED <<tables, ti>>
        ELSE /\ tables' = r.value
             /\ ti' = 1
             /\ pc' = "append_table_data"
             /\ UNCHANGED <<err, cur>>
  /\ UNCHANGED <<blocks, ret, startVars, config, calls, keys, analysed, responses,
                 header_rows, kv_pairs, ri, sheet, invoiceVars>>

\* append_table_data: worksheet = sh.worksheet(TABLE_TAB), for the table in hand
OpenTableTab ==
  /\ prog = "pdf_to_sheet" /\ pc = "append_table_data" /\ ti <= Len(tables)
  /\ calls' = calls \cup {"gspread.worksheet"}
  /\ \/ /\ ri' = 1
        /\ pc' = "append_table_rows"
        /\ UNCHANGED <<err, cur>>
     \/ /\ Propagate(UpstreamError("gspread"))
        /\ UNCHANGED ri
  /\ UNCHANGED <<blocks, ret, startVars, config, keys, analysed, responses, header_rows,
                 kv_pairs, tables, ti, sheet, invoiceVars>>

\* [source_key] + row
TableRow(source_key, row) == <<source_key>> \o row

\* append_table_data: worksheet.append_row([source_key] + row)
AppendTableRow ==
  /\ prog = "pdf_to_sheet" /\ pc = "append_table_rows" /\ ri <= Len(tables[ti])
  /\ \/ /\ sheet' = append_row(sheet, config.TABLE_TAB, TableRow(keys[cur], tables[ti][ri]))
        /\ ri' = ri + 1
        /\ UNCHANGED <<pc, err, cur>>
     \/ /\ Propagate(UpstreamError("gspread"))
        /\ UNCHANGED <<sheet, ri>>
  /\ UNCHANGED <<blocks, ret, startVars, config, calls, keys, analysed, responses,
                 header_rows, kv_pairs, tables, ti, invoiceVars>>

\* append_table_data returns: the next table of process_pdf's loop
NextTable ==
  /\ prog = "pdf_to_sheet" /\ pc = "append_table_rows" /\ ri > Len(tables[ti])
  /\ ti' = ti + 1
  /\ pc' = "append_table_data"
  /\ UNCHANGED <<blocks, ret, startVars, config, err, calls, keys, cur, analysed,
                 responses, header_rows, kv_pairs, tables, ri, sheet, invoiceVars>>

\* process_pdf returns; time.sleep(0.2); the next key of main's loop
NextDocument ==
  /\ prog = "pdf_to_sheet" /\ pc = "append_table_data" /\ ti > Len(tables)
  /\ cur' = cur + 1
  /\ pc' = "loop"
  /\ UNCHANGED <<blocks, ret, startVars, config, err, calls, keys, analysed, responses,
                 header_rows, kv_pairs, tables, ti, ri, sheet, invoiceVars>>

\* the loop is over: print("Done")
BatchDone ==
  /\ prog = "pdf_to_sheet" /\ pc = "loop" /\ cur > Len(keys)
  /\ pc' = "done"
  /\ UNCHANGED <<blocks, ret, startVars, config, err, calls, batchVars, sheet, invoiceVars>>

NextBatch ==
  \/ BatchStart \/ ListPdfs \/ OpenSheet \/ AnalyzeDocument \/ BuildKvMap
  \/ AppendFormData \/ ExtractTables \/ OpenTableTab \/ AppendTableRow
  \/ NextTable \/ NextDocument \/ BatchDone

(* ---------- process_invoice ---------- *)

env_vars ==
  <<"AWS_ACCESS_KEY_ID", "AWS_SECRET_ACCESS_KEY", "AWS_REGION", "S3_BUCKET_NAME",
    "OPENAI_API_KEY", "GOOGLE_SHEET_ID", "GOOGLE_CREDENTIALS_FILE">>

RECURSIVE LoadLoop(_, _, _, _)
LoadLoop(names, e, cfg, missing) ==
  IF names = <<>> THEN [config |-> cfg, missing |-> missing]
  ELSE LET var == Head(names)
           val == getenv(e, var, Unset)
       IN IF ~Truthy(val)
          THEN LoadLoop(Tail(names), e, cfg, Append(missing, var))
          ELSE LoadLoop(Tail(names), e, DictSet(cfg, var, val), missing)

\* variant of load_config: the error names only the first missing variable
load_config_first_missing(e) ==
  LET r == LoadLoop(env_vars, e, <<>>, <<>>)
  IN IF r.missing # <<>>
     THEN [raised |-> "EnvironmentError", value |-> <<r.missing[1]>>]
     ELSE Ok(r.config)

\* the config, or EnvironmentError("Missing environment variables: a, b, ...")
load_config(e) ==
  LET r == LoadLoop(env_vars, e, <<>>, <<>>)
  IN IF r.missing # <<>>
     THEN [raised |-> "EnvironmentError", value |-> r.missing]
     ELSE Ok(r.config)

InvoiceEnvs == [Range(env_vars) -> {Unset, "", "set"}]

QueryResult(id, alias, text) ==
  [Block(id, "QUERY_RESULT") EXCEPT !.Alias = alias, !.Text = text]

NotADate == <<"n", "o", "t", " ", "a", " ", "d", "a", "t", "e">>

IsoDate == <<"2", "0", "2", "3", "-", "0", "3", "-", "0", "3">>

\* block collections analyze_document may return for the three queries
QueryResponses ==
  { title \o lines \o date \o volume :
      title \in { <<>>, <<QueryResult("q1", "Title", <<"A">>)>>,
                  <<QueryResult("q1", "Title", <<"A">>), QueryResult("q4", "Title", <<"C">>)>> },
      lines \in { <<>>, <<Line("l1", <<"A", " ", "B">>), Word("w1", <<"A">>),
                         Line("l2", <<"C">>)>> },
      date \in { <<>>, <<QueryResult("q2", "Date", NotADate)>>,
                 <<QueryResult("q2", "Date", IsoDate)>> },
      volume \in { <<>>, <<QueryResult("q3", "VolumeIssueNumber", <<"B">>)>>,
                   <<QueryResult("q3", "", <<"B">>)>> } }

\* what date_parser.parse(text, fuzzy=True) may give: a date, or an exception
DateOutcomes ==
  { NoDate,
    [ok |-> TRUE, year |-> 2023, month |-> 3, day |-> 3],
    [ok |-> TRUE, year |-> 1999, month |-> 12, day |-> 31] }

\* the message contents the summarization may return
SummaryContents == { <<>>, <<" ", "S", "u", "m", "\n">> }

DigitChars == <<"0", "1", "2", "3", "4", "5", "6", "7", "8", "9">>

RECURSIVE Digits(_, _)
\* n in decimal, zero-padded to width
Digits(n, width) ==
  IF width = 0 THEN <<>>
  ELSE Digits(n \div 10, width - 1) \o <<DigitChars[(n % 10) + 1]>>

\* dt.strftime("%Y/%m/%d")
strftime(dt) ==
  Digits(dt.year, 4) \o <<"/">> \o Digits(dt.month, 2) \o <<"/">> \o Digits(dt.day, 2)

RECURSIVE join(_, _)
\* sep.join(lines)
join(lines, sep) ==
  IF lines = <<>> THEN <<>>
  ELSE IF Len(lines) = 1 THEN lines[1]
  ELSE lines[1] \o sep \o join(Tail(lines), sep)

RECURSIVE ScanBlocks(_, _, _)
\* the loop of parse_response over the blocks
ScanBlocks(bs, results, full_lines) ==
  IF bs = <<>> THEN [results |-> results, full_lines |-> full_lines]
  ELSE LET block == Head(bs)
       IN IF block.BlockType = "QUERY_RESULT"
          THEN ScanBlocks(Tail(bs),
                          IF block.Alias # "" THEN DictSet(results, block.Alias, block.Text)
                                              ELSE results,
                          full_lines)
          ELSE IF block.BlockType = "LINE"
          THEN ScanBlocks(Tail(bs), results, Append(full_lines, block.Text))
          ELSE ScanBlocks(Tail(bs), results, full_lines)

\* variant of NormalizeDate: a date that does not parse is blanked
NormalizeDateBlank(results, outcome) ==
  IF "Date" \in DOMAIN results
  THEN DictSet(results, "Date", IF outcome.ok THEN strftime(outcome) ELSE <<>>)
  ELSE results

\* the try/except around date_parser.parse: a failure leaves results alone
NormalizeDate(results, outcome) ==
  IF "Date" \in DOMAIN results /\ outcome.ok
  THEN DictSet(results, "Date", strftime(outcome))
  ELSE results

parse_response(response, outcome) ==
  LET scan == ScanBlocks(response, <<>>, <<>>)
  IN DictSet(NormalizeDate(scan.results, outcome), "full_text",
             join(scan.full_lines, <<"\n">>))

\* date_parser.parse is called only when the results hold a Date
ParseOutcomes(response) ==
  IF "Date" \in DOMAIN ScanBlocks(response, <<>>, <<>>).results THEN DateOutcomes ELSE {NoDate}

\* variant of InvoiceRow: the summary in the last cell
InvoiceRowSummaryLast(p) ==
  << DictGet(p, "Title", <<>>), DictGet(p, "Date", <<>>),
     DictGet(p, "VolumeIssueNumber", <<>>), DictGet(p, "Description", <<>>) >>

\* the row main builds from parsed
InvoiceRow(p) ==
  << DictGet(p, "Title", <<>>), DictGet(p, "Date", <<>>),
     DictGet(p, "Description", <<>>), DictGet(p, "VolumeIssueNumber", <<>>) >>

InitInvoice ==
  /\ prog = "process_invoice" /\ env \in InvoiceEnvs /\ argv \in {1, 2, 3} /\ pc = "start"
  /\ blocks = <<>> /\ ret = NoCall
  /\ NotStarted

\* main up to the textract client (lines 130-143)
InvoiceStart ==
  /\ prog = "process_invoice" /\ pc = "start"
  /\ IF argv # 2
     THEN /\ Exit([type |-> "SystemExit", names |-> <<>>])
          /\ UNCHANGED <<config, calls>>
     ELSE LET r == load_config(env)
          IN IF r.raised # ""
             THEN /\ Exit([type |-> r.raised, names |-> r.value])
                  /\ UNCHANGED <<config, calls>>
             ELSE /\ config' = r.value
                  /\ calls' = calls \cup {"boto3.client"}
                  /\ pc' = "analyze_document"
                  /\ UNCHANGED err
  /\ UNCHANGED <<blocks, ret, startVars, batchVars, sheet, invoiceVars>>

\* response = analyze_document(textract, bucket, s3_key)
InvoiceAnalyze ==
  /\ prog = "process_invoice" /\ pc = "analyze_document"
  /\ calls' = calls \cup {"textract.analyze_document"}
  /\ \/ \E response \in QueryResponses :
          /\ blocks' = response
          /\ pc' = "parse_response"
          /\ UNCHANGED err
     \/ /\ Exit(UpstreamError("textract"))
        /\ UNCHANGED blocks
  /\ UNCHANGED <<ret, startVars, config, batchVars, sheet, invoiceVars>>

\* parsed = parse_response(response)
InvoiceParse ==
  /\ prog = "process_invoice" /\ pc = "parse_response"
  /\ \E outcome \in ParseOutcomes(blocks) :
       /\ date_outcome' = outcome
       /\ parsed' = parse_response(blocks, outcome)
  /\ pc' = "summarize_text"
  /\ UNCHANGED <<blocks, ret, startVars, config, err, calls, batchVars, sheet, summary>>

\* summary = summarize_text(...); parsed["Description"] = summary
InvoiceSummarize ==
  /\ prog = "process_invoice" /\ pc = "summarize_text"
  /\ calls' = calls \cup {"openai.ChatCompletion.create"}
  /\ \/ \E content \in SummaryContents :
          /\ summary' = strip(content)
          /\ parsed' = DictSet(parsed, "Description", summary')
          /\ pc' = "append_to_sheet"
          /\ UNCHANGED err
     \/ /\ Exit(UpstreamError("openai"))
        /\ UNCHANGED <<summary, parsed>>
  /\ UNCHANGED <<blocks, ret, startVars, config, batchVars, sheet, date_outcome>>

\* append_to_sheet(creds_file, sheet_id, row)
InvoiceAppend ==
  /\ prog = "process_invoice" /\ pc = "append_to_sheet"
  /\ calls' = calls \cup {"gspread.authorize"}
  /\ \/ /\ sheet' = append_row(sheet, "Form Data", InvoiceRow(parsed))
        /\ pc' = "done"
        /\ UNCHANGED err
     \/ /\ Exit(UpstreamError("gspread"))
        /\ UNCHANGED sheet
  /\ UNCHANGED <<blocks, ret, startVars, config, batchVars, invoiceVars>>

NextInvoice ==
  \/ InvoiceStart \/ InvoiceAnalyze \/ InvoiceParse \/ InvoiceSummarize \/ InvoiceAppend

(* ---------- a run of either script ---------- *)

Init == InitBatch \/ InitInvoice

Next == NextBatch \/ NextInvoice

Spec == Init /\ [][Next]_vars

(* ======================================================================= *)
(* Properties of the reconstruction (checked under SpecRecon)              *)
(* ======================================================================= *)

\* the rendered text of a block of the collection under reconstruction
Rendered(b) == extract_text(b, BlockMapOf(blocks)).value

KeyIndexes == {n \in DOMAIN blocks : IsKeyBlock(blocks[n])}

\* the targets a block's relationships of one type list
Targets(b, type) ==
  UNION {Range(b.Relationships[i].Ids) :
           i \in {j \in DOMAIN b.Relationships : b.Relationships[j].Type = type}}

\* the value blocks that the first target id of k's VALUE relationship names
PairedValues(k) ==
  {v \in Range(blocks) :
     /\ IsValueBlock(v)
     /\ \E i \in DOMAIN k.Relationships :
          /\ k.Relationships[i].Type = "VALUE"
          /\ k.Relationships[i].Ids # <<>>
          /\ k.Relationships[i].Ids[1] = v.Id}

PairedValueText(k) ==
  IF PairedValues(k) = {} THEN <<>> ELSE Rendered(CHOOSE v \in PairedValues(k) : TRUE)

KvReturned == ret.fn = "build_kv_map" /\ ret.res.raised = ""

\* the last key block of the collection that renders to the text kt
LastKeyRendering(kt) ==
  CHOOSE n \in KeyIndexes :
    /\ Rendered(blocks[n]) = kt
    /\ \A m \in KeyIndexes : Rendered(blocks[m]) = kt => m <= n

\* C1 as stated: in the mapping build_kv_map returns, every key block's
\* rendered text maps to the rendered text of that key block's own paired
\* value block ("" when it has none).
C1_EveryKeyOwnValue ==
  KvReturned =>
    \A n \in KeyIndexes :
      LET kt == Rendered(blocks[n])
      IN /\ kt \in DOMAIN ret.res.value
         /\ ret.res.value[kt] = PairedValueText(blocks[n])

\* C1 amended: in the mapping build_kv_map returns, every key block's rendered
\* text has an entry, and the entry holds the paired value text ("" when there
\* is none) of the last key block of the collection that renders to that text.
C1_LastKeyWins ==
  KvReturned =>
    \A n \in KeyIndexes :
      LET kt == Rendered(blocks[n])
      IN /\ kt \in DOMAIN ret.res.value
         /\ ret.res.value[kt] = PairedValueText(blocks[LastKeyRendering(kt)])

\* C1 witness: a mapping was returned for a collection where two key blocks
\* render to the same text and are paired with values of different text.
C1_Witness ==
  /\ KvReturned
  /\ \E n, m \in KeyIndexes :
       /\ n < m
       /\ Rendered(blocks[n]) = Rendered(blocks[m])
       /\ PairedValueText(blocks[n]) # <<>>
       /\ PairedValueText(blocks[m]) # <<>>
       /\ PairedValueText(blocks[n]) # PairedValueText(blocks[m])

RECURSIVE KeepKnown(_, _)
KeepKnown(ids, known) ==
  IF ids = <<>> THEN <<>>
  ELSE (IF Head(ids) \in known THEN <<Head(ids)>> ELSE <<>>) \o KeepKnown(Tail(ids), known)

\* the collection with every target id that names no block taken out
WithoutDangling(bs) ==
  LET known == {bs[n].Id : n \in DOMAIN bs}
  IN [n \in DOMAIN bs |->
        [bs[n] EXCEPT !.Relationships =
           [i \in DOMAIN bs[n].Relationships |->
              Rel(bs[n].Relationships[i].Type,
                  KeepKnown(bs[n].Relationships[i].Ids, known))]]]

\* C2 as stated: build_kv_map, extract_text and extract_tables never raise on
\* a target id that names no block, and return what they return for the
\* collection without that id.
C2_DanglingTreatedAsAbsent ==
  LET clean == WithoutDangling(blocks)
  IN /\ ret.fn = "build_kv_map" => ret.res = build_kv_map(clean)
     /\ ret.fn = "extract_tables" => ret.res = extract_tables(clean)
     /\ ret.fn = "extract_text" =>
          ret.res = extract_text(clean[ret.arg], BlockMapOf(clean))

IsTable(b) == b.BlockType = "TABLE"

TableBlocks == SelectSeq(blocks, IsTable)

\* the CELL blocks a TABLE block's CHILD relationships list
CellsOf(t) == {b \in Range(blocks) : b.BlockType = "CELL" /\ b.Id \in Targets(t, "CHILD")}

RowIndexesOf(t) == {c.RowIndex : c \in CellsOf(t)}

ColumnIndexesOf(t, r) == {c.ColumnIndex : c \in {d \in CellsOf(t) : d.RowIndex = r}}

\* the position of x among the elements of S in ascending order
RankIn(x, S) == Cardinality({y \in S : y < x}) + 1

TablesReturned == ret.fn = "extract_tables" /\ ret.res.raised = ""

\* C3: extract_tables returns one table per TABLE block, with one row per
\* distinct row index of its cells in ascending row order, each row holding
\* the rendered texts of its cells in ascending column order, whatever the
\* order the CHILD relationship lists the cells in.
C3_RowsAndColumnsAscending ==
  TablesReturned =>
    /\ Len(ret.res.value) = Len(TableBlocks)
    /\ \A i \in DOMAIN TableBlocks :
         LET t == TableBlocks[i]
             out == ret.res.value[i]
         IN /\ Len(out) = Cardinality(RowIndexesOf(t))
            /\ \A r \in RowIndexesOf(t) :
                 LET o == out[RankIn(r, RowIndexesOf(t))]
                     cols == ColumnIndexesOf(t, r)
                 IN /\ Len(o) = Cardinality(cols)
                    /\ \A c \in CellsOf(t) :
                         c.RowIndex = r => o[RankIn(c.ColumnIndex, cols)] = Rendered(c)

\* C3 witness: tables were returned for a TABLE whose CHILD relationship lists
\* (1,1)=A, (1,2)=B, (2,1)=C with the cell of row 2 first and B before A, and
\* the result is [[A,B],[C]].
C3_Witness ==
  /\ TablesReturned
  /\ \E i \in DOMAIN TableBlocks :
       /\ RelIds(TableBlocks[i].Relationships, "CHILD") = <<"c3", "c2", "c1">>
       /\ \E a, b, c \in CellsOf(TableBlocks[i]) :
            /\ <<a.Id, a.RowIndex, a.ColumnIndex>> = <<"c1", 1, 1>>
            /\ <<b.Id, b.RowIndex, b.ColumnIndex>> = <<"c2", 1, 2>>
            /\ <<c.Id, c.RowIndex, c.ColumnIndex>> = <<"c3", 2, 1>>
       /\ ret.res.value[i] = << << <<"A">>, <<"B">> >>, << <<"C">> >> >>

Least(S) == CHOOSE x \in S : \A y \in S : x <= y

Greatest(S) == CHOOSE x \in S : \A y \in S : y <= x

\* C4 as stated: a column a row does not observe, between the columns it does
\* observe, is rendered as "" at that column's position in the output row.
C4_GapsFilledWithEmpty ==
  TablesReturned =>
    \A i \in DOMAIN TableBlocks :
      LET t == TableBlocks[i]
      IN \A r \in RowIndexesOf(t) :
           LET o == ret.res.value[i][RankIn(r, RowIndexesOf(t))]
               cols == ColumnIndexesOf(t, r)
           IN \A col \in Least(cols)..Greatest(cols) :
                /\ col - Least(cols) + 1 <= Len(o)
                /\ col \notin cols => o[col - Least(cols) + 1] = <<>>

(* ======================================================================= *)
(* Properties of the two scripts (checked under Spec)                      *)
(* ======================================================================= *)

IsBatch == prog = "pdf_to_sheet"

IsInvoice == prog = "process_invoice"

IsPrefix(s, t) == Len(s) <= Len(t) /\ SubSeq(t, 1, Len(s)) = s

RECURSIVE Flatten(_)
\* the concatenation of a sequence of sequences
Flatten(ss) == IF ss = <<>> THEN <<>> ELSE Head(ss) \o Flatten(Tail(ss))

\* the form row of the i-th document: one cell per header read for it, the
\* mapping's value for the header, "" when the mapping has none
PlannedFormRow(i) ==
  LET kv == build_kv_map(responses[i]).value
  IN [tab |-> config.FORM_TAB,
      row |-> [j \in 1..Len(header_rows[i]) |->
                 IF header_rows[i][j] \in DOMAIN kv THEN kv[header_rows[i][j]] ELSE <<>>]]

\* the table rows of the i-th document: per table, per row, the document's
\* key and then the row's cells (none when the reconstruction raises)
PlannedTableRows(i) ==
  LET r == extract_tables(responses[i])
  IN IF r.raised # "" THEN <<>>
     ELSE LET rows == Flatten(r.value)
          IN [j \in 1..Len(rows) |->
                [tab |-> config.TABLE_TAB, row |-> <<keys[i]>> \o rows[j]]]

PlannedRows(i) == <<PlannedFormRow(i)>> \o PlannedTableRows(i)

\* the rows of the first n documents, document after document
RowsOfFirst(n) == Flatten([i \in 1..n |-> PlannedRows(i)])

\* C5: once process_pdf has returned for the first n documents, the sheet
\* holds exactly, per document, one form-tab row with one cell per header
\* (the mapping's value, or ""), and one table-tab row per row of each of its
\* tables, the document's key first; and no other row.
C5_RowsPerDocument ==
  IsBatch /\ pc \in {"loop", "done"} => sheet = RowsOfFirst(cur - 1)

\* C5 witness: a document with two key-value pairs and tables of one and two
\* rows was handled; the sheet received one form row, filled from the
\* mapping, and three table rows that start with the document's key.
C5_Witness ==
  /\ IsBatch /\ pc = "loop" /\ cur = 2
  /\ Cardinality(DOMAIN build_kv_map(responses[1]).value) = 2
  /\ Len(sheet) = 4
  /\ sheet[1].tab = config.FORM_TAB
  /\ sheet[1].row = << <<"X", " ", "C">>, <<>>, <<"B">> >>
  /\ \A j \in 2..4 : sheet[j].tab = config.TABLE_TAB /\ sheet[j].row[1] = keys[1]
  /\ sheet[4].row = << keys[1], <<"C">> >>

FormRowCount == Cardinality({j \in DOMAIN sheet : sheet[j].tab = config.FORM_TAB})

\* C6: once a step of the batch run has failed the run is over: it is at its
\* exit and no step is enabled (no retry, no Done), only the documents up to
\* the failed one were handed to the analysis, each once, and no row of a
\* later document is in the sheet.
C6_FailureEndsRun ==
  IsBatch /\ err.type # "" =>
    /\ pc = "exit"
    /\ ~ENABLED Next
    /\ analysed = SubSeq(keys, 1, cur)
    /\ FormRowCount <= cur
    /\ \A j \in DOMAIN sheet :
         sheet[j].tab = config.TABLE_TAB =>
           \E i \in 1..cur : sheet[j].row[1] = keys[i]

\* C6 witness: the first of two documents failed after its form row was
\* appended; the second was never analysed.
C6_Witness ==
  /\ IsBatch /\ pc = "exit" /\ err.type # ""
  /\ Len(keys) = 2 /\ cur = 1 /\ Len(analysed) = 1
  /\ sheet # <<>>

Required ==
  IF IsBatch THEN {"S3_BUCKET", "SPREADSHEET_ID"} ELSE Range(env_vars)

\* the required settings the environment does not hold, or holds empty
MissingSettings == {v \in Required : env[v] \in {Unset, ""}}

StartupFailedNamingMissing ==
  /\ pc = "exit"
  /\ calls = {}
  /\ err.type \in {"ValueError", "EnvironmentError"}
  /\ MissingSettings \subseteq Range(err.names)
  /\ \A v \in Required \cap DOMAIN config : config[v] = env[v]

\* C7 as stated: in both scripts a run with a required setting missing ends,
\* before any external call, in one error that names every missing setting,
\* and no required setting was given a default.
C7_MissingSettingsNamed ==
  pc # "start" /\ MissingSettings # {} => StartupFailedNamingMissing

\* C7 amended: the same, for pdf_to_sheet and for process_invoice invoked with
\* exactly one argument (with another argument count process_invoice prints its
\* usage line and exits with status 1 before it reads any setting).
C7_MissingSettingsNamedGivenOneArgument ==
  pc # "start" /\ MissingSettings # {} /\ (IsInvoice => argv = 2)
    => StartupFailedNamingMissing

\* C7 witness: process_invoice, one argument, none of the seven settings in
\* the environment: the error names all seven.
C7_Witness ==
  /\ IsInvoice /\ argv = 2 /\ pc = "exit"
  /\ \A v \in Range(env_vars) : env[v] = Unset
  /\ err.names = env_vars
  /\ calls = {}

AnswerIndexes(alias) ==
  {n \in DOMAIN blocks : blocks[n].BlockType = "QUERY_RESULT" /\ blocks[n].Alias = alias}

HasAnswer(alias) == AnswerIndexes(alias) # {}

\* the text of the last QUERY_RESULT block of the alias
LastAnswer(alias) == blocks[Greatest(AnswerIndexes(alias))].Text

DigitValue(ch) == (CHOOSE d \in 1..10 : DigitChars[d] = ch) - 1

IsDigit(ch) == \E d \in 1..10 : DigitChars[d] = ch

RECURSIVE Number(_)
Number(s) == IF s = <<>> THEN 0 ELSE 10 * Number(SubSeq(s, 1, Len(s) - 1)) + DigitValue(s[Len(s)])

\* text is dt written YYYY/MM/DD
IsYMD(text, dt) ==
  /\ Len(text) = 10
  /\ text[5] = "/" /\ text[8] = "/"
  /\ \A n \in {1, 2, 3, 4, 6, 7, 9, 10} : IsDigit(text[n])
  /\ Number(SubSeq(text, 1, 4)) = dt.year
  /\ Number(SubSeq(text, 6, 7)) = dt.month
  /\ Number(SubSeq(text, 9, 10)) = dt.day

\* C8: when parse_response returns for a response with a Date answer, the
\* Date entry is the answer's text unchanged if the date could not be parsed
\* and the parsed date as YYYY/MM/DD if it could; every other entry is what it
\* is for any other outcome of the date parsing.
C8_UnparsedDateKept ==
  IsInvoice /\ pc = "summarize_text" /\ HasAnswer("Date") =>
    /\ "Date" \in DOMAIN parsed
    /\ ~date_outcome.ok => parsed["Date"] = LastAnswer("Date")
    /\ date_outcome.ok => IsYMD(parsed["Date"], date_outcome)
    /\ \A other \in DateOutcomes :
         LET p == parse_response(blocks, other)
         IN /\ DOMAIN p = DOMAIN parsed
            /\ \A k \in DOMAIN parsed \ {"Date"} : p[k] = parsed[k]

\* C8 witness: parse_response returned for the Date answer "not a date", which
\* did not parse; Date holds that text beside a Title and the full text.
C8_Witness ==
  /\ IsInvoice /\ pc = "summarize_text"
  /\ HasAnswer("Date") /\ LastAnswer("Date") = NotADate
  /\ ~date_outcome.ok
  /\ parsed["Date"] = NotADate
  /\ HasAnswer("Title") /\ parsed["Title"] = <<"C">>
  /\ parsed["full_text"] = <<"A", " ", "B", "\n", "C">>

AnswerOrEmpty(alias) == IF HasAnswer(alias) THEN LastAnswer(alias) ELSE <<>>

\* C9: a run of process_invoice that ends well has appended exactly one row,
\* of four cells: the Title answer, the Date entry, the summary, the
\* VolumeIssueNumber answer, with "" for an alias the response does not answer;
\* a run that has not ended well has appended nothing.
C9_OneFixedRow ==
  IsInvoice =>
    /\ pc # "done" => sheet = <<>>
    /\ pc = "done" =>
         /\ Len(sheet) = 1
         /\ sheet[1].tab = "Form Data"
         /\ Len(sheet[1].row) = 4
         /\ sheet[1].row[1] = AnswerOrEmpty("Title")
         /\ sheet[1].row[2] = (IF HasAnswer("Date") THEN parsed["Date"] ELSE <<>>)
         /\ sheet[1].row[3] = summary
         /\ sheet[1].row[4] = AnswerOrEmpty("VolumeIssueNumber")

\* C9 witness: a run ended well for a response that answers Title and Date but
\* not VolumeIssueNumber; the row holds "" in the fourth cell.
C9_Witness ==
  /\ IsInvoice /\ pc = "done"
  /\ HasAnswer("Title") /\ HasAnswer("Date") /\ ~HasAnswer("VolumeIssueNumber")
  /\ date_outcome.ok
  /\ sheet = << [tab |-> "Form Data",
                 row |-> << <<"A">>, <<"2", "0", "2", "3", "/", "0", "3", "/", "0", "3">>,
                            <<"S", "u", "m">>, <<>> >>] >>

\* the rows of the documents whose header row was read, in listing order
RowsInOrder == RowsOfFirst(Len(header_rows))

WritesInOrder ==
  IsBatch =>
    /\ IsPrefix(sheet, RowsInOrder)
    /\ cur >= 1 /\ pc # "exit" => IsPrefix(RowsOfFirst(cur - 1), sheet)
    /\ pc \in {"extract_tables", "append_table_data", "append_table_rows"} =>
         IsPrefix(RowsOfFirst(cur - 1) \o <<PlannedFormRow(cur)>>, sheet)

\* C10: at every point of a batch run the sheet is a prefix of the rows of the
\* documents in listing order, each document's form row before its table
\* rows; all rows of the earlier documents are in it, the form row of the
\* document in hand is in it before its tables are reconstructed, and a step
\* never removes or changes a row that was appended.
C10_WritesArePrefix == [](WritesInOrder) /\ [][IsPrefix(sheet, sheet')]_vars

\* C10 witness: the reconstruction of a document's tables raised; the
\* document's form row, appended before, is the last row of the sheet.
C10_Witness ==
  /\ IsBatch /\ pc = "exit" /\ err.type = "KeyError"
  /\ Len(header_rows) = cur
  /\ sheet # <<>>
  /\ sheet[Len(sheet)] = PlannedFormRow(cur)
  /\ cur = 2

====
